---- MODULE Spec2Model ----
(***************************************************************************)
(* Model of app.py, the Streamlit page of the AIS clinical prediction      *)
(* tool.  One behaviour is a sequence of script runs of one server         *)
(* process: every run executes the script top to bottom (load the model,   *)
(* render the form, predict when the form was submitted, render the        *)
(* footer).  The result of load_model is kept by st.cache_resource from    *)
(* one run to the next.                                                    *)
(*                                                                         *)
(* Numbers: widget values are held in hundredths (60.0 is 6000), the       *)
(* probabilities returned by the model in thousandths (0.8 is 800), both   *)
(* as exact decimals.                                                      *)
(***************************************************************************)
EXTENDS Integers, Sequences, FiniteSets

VARIABLES
    pc,                 \* position of the run in the script
    runs,               \* number of script runs started in this process
    saveExists,         \* os.path.exists('save/tabpfn_model.pkl')
    localExists,        \* os.path.exists('tabpfn_model.pkl')
    cache,              \* st.cache_resource entry of load_model
    load,               \* what load_model did in this run
    model,              \* module variable model
    widgets,            \* value returned by each form widget
    htn, stroke, smoking,   \* map_binary results
    submitted,          \* st.form_submit_button result
    input_data,         \* the DataFrame
    probs,              \* model.predict_proba(input_data)
    prob_good_outcome,  \* probs[0][1]
    pred_label,         \* model.predict(input_data)[0]
    exc,                \* exception raised inside the try block of this run
    calls,              \* calls made on the model in this run, in order
    display             \* elements sent to the page in this run, in order

vars ==
    << pc, runs, saveExists, localExists, cache, load, model, widgets,
       htn, stroke, smoking, submitted, input_data, probs,
       prob_good_outcome, pred_label, exc, calls, display >>

----------------------------------------------------------------------------
(* Bounds *)

MaxRuns == 2
MaxEdits == 2
MaxLabel == 2

----------------------------------------------------------------------------
(* Values *)

\* A float: a decimal number, or NaN.
Num(v) ==
    [nan |-> FALSE, v |-> v]

NaN ==
    [nan |-> TRUE, v |-> 0]

\* The comparison x >= t.
Gt_or_equal(x, t) ==
    ~x.nan /\ x.v >= t

\* Python's x > t for a float x and a literal t: false when x is NaN.
Gt(x, t) ==
    ~x.nan /\ x.v > t

\* Columns of the training data, in training order.
feature_order ==
    << "ONT", "SBP", "BMI", "Baseline NIHSS", "Post-thrombolysis NIHSS",
       "Neutrophil Ratio", "Glucose", "PT", "TT", "Hypertension", "Stroke",
       "Smoking" >>

NumericFields ==
    { "ont", "b_nihss", "glucose", "sbp", "p_nihss", "pt", "bmi",
      "neu_ratio", "tt" }

BinaryFields ==
    { "htn_input", "stroke_input", "smoking_input" }

Fields ==
    NumericFields \cup BinaryFields

\* st.number_input(value=...), in hundredths.
NumberDefault ==
    [ ont |-> 6000, b_nihss |-> 1000, glucose |-> 550, sbp |-> 14000,
      p_nihss |-> 800, pt |-> 1200, bmi |-> 2400, neu_ratio |-> 60,
      tt |-> 1600 ]

\* st.number_input(step=...), in hundredths.
NumberStep ==
    [ ont |-> 100, b_nihss |-> 100, glucose |-> 10, sbp |-> 100,
      p_nihss |-> 100, pt |-> 10, bmi |-> 10, neu_ratio |-> 1, tt |-> 10 ]

\* st.number_input(min_value=...): 0.0 for every field.
NumberMin ==
    [ f \in NumericFields |-> 0 ]

\* st.number_input(max_value=...), in hundredths; -1 where none is given.
NumberMax ==
    [ ont |-> -1, b_nihss |-> 4200, glucose |-> -1, sbp |-> 30000,
      p_nihss |-> 4200, pt |-> -1, bmi |-> 6000, neu_ratio |-> -1,
      tt |-> -1 ]

\* st.selectbox(options=["No", "Yes"]).
BinaryOptions ==
    << "No", "Yes" >>

\* The value a widget hands to the script: a float from st.number_input, a
\* str from st.selectbox.
FloatValue(n) ==
    [type |-> "float", num |-> n, str |-> ""]

StrValue(s) ==
    [type |-> "str", num |-> 0, str |-> s]

\* st.number_input after the user pressed "+" clicks times: the default
\* moved by whole steps and kept inside [min_value, max_value].
number_input(f, clicks) ==
    LET v == NumberDefault[f] + clicks * NumberStep[f]
        lo == IF v < NumberMin[f] THEN NumberMin[f] ELSE v
    IN  FloatValue(IF NumberMax[f] >= 0 /\ lo > NumberMax[f]
                   THEN NumberMax[f] ELSE lo)

\* st.selectbox: the option at the chosen index; index 0 is preselected.
selectbox(index) ==
    StrValue(BinaryOptions[index + 1])

\* map_binary testing for the other option.
map_binary_inverted(val) ==
    IF val.str = "No" THEN 1 ELSE 0

map_binary(val) ==
    IF val.str = "Yes" THEN 1 ELSE 0

\* The forms the user can submit: the defaults with the fields in edited
\* changed (a numeric field one step up, a select box set to "Yes").
FormValues(edited) ==
    [ f \in Fields |->
        IF f \in NumericFields
        THEN number_input(f, IF f \in edited THEN 1 ELSE 0)
        ELSE selectbox(IF f \in edited THEN 1 ELSE 0) ]

----------------------------------------------------------------------------
(* The one-row table *)

NoFrame ==
    [columns |-> << >>, rows |-> << >>]

\* pd.DataFrame(dict of lists): one column per key, in insertion order; row
\* i holds the i-th entry of every list.  dict is the sequence of
\* <<key, list>> pairs in insertion order; all lists have the same length.
DataFrame(dict) ==
    [ columns |-> [ k \in DOMAIN dict |-> dict[k][1] ],
      rows    |-> [ i \in DOMAIN dict[1][2] |->
                      [ k \in DOMAIN dict |-> dict[k][2][i] ] ] ]

\* Position of the column called name.
ColumnIndex(df, name) ==
    CHOOSE k \in DOMAIN df.columns : df.columns[k] = name

\* df[order]: the columns named in order, looked up by name.
SelectColumns(df, order) ==
    [ columns |-> order,
      rows    |-> [ i \in DOMAIN df.rows |->
                      [ k \in DOMAIN order |->
                          df.rows[i][ColumnIndex(df, order[k])] ] ] ]

\* The dict literal with the last two values exchanged.
InputDict_swapped(w, h, s, m) ==
    << << "ONT", << w["ont"].num >> >>,
       << "SBP", << w["sbp"].num >> >>,
       << "BMI", << w["bmi"].num >> >>,
       << "Baseline NIHSS", << w["b_nihss"].num >> >>,
       << "Post-thrombolysis NIHSS", << w["p_nihss"].num >> >>,
       << "Neutrophil Ratio", << w["neu_ratio"].num >> >>,
       << "Glucose", << w["glucose"].num >> >>,
       << "PT", << w["pt"].num >> >>,
       << "TT", << w["tt"].num >> >>,
       << "Hypertension", << h >> >>,
       << "Stroke", << m >> >>,
       << "Smoking", << s >> >> >>

\* The dict literal handed to pd.DataFrame.
InputDict(w, h, s, m) ==
    << << "ONT", << w["ont"].num >> >>,
       << "SBP", << w["sbp"].num >> >>,
       << "BMI", << w["bmi"].num >> >>,
       << "Baseline NIHSS", << w["b_nihss"].num >> >>,
       << "Post-thrombolysis NIHSS", << w["p_nihss"].num >> >>,
       << "Neutrophil Ratio", << w["neu_ratio"].num >> >>,
       << "Glucose", << w["glucose"].num >> >>,
       << "PT", << w["pt"].num >> >>,
       << "TT", << w["tt"].num >> >>,
       << "Hypertension", << h >> >>,
       << "Stroke", << s >> >>,
       << "Smoking", << m >> >> >>

----------------------------------------------------------------------------
(* What the model may return *)

\* Class-1 probabilities tried, in thousandths: around both thresholds, at
\* both ends of 0..1, and outside 0..1 on either side.
ProbValues ==
    { -5, 0, 500, 501, 800, 801, 1000, 1009, 1010 }

\* predict_proba returns one row [class-0 probability, class-1 probability]
\* for the one-row table; the entries are whatever the artifact computes.
ProbRows ==
    { << Num(1000 - p), Num(p) >> : p \in ProbValues } \cup { << NaN, NaN >> }

Labels ==
    0 .. MaxLabel

ModelErrors ==
    { "model error" }

NoExc ==
    [src |-> "none", msg |-> ""]

----------------------------------------------------------------------------
(* Page elements *)

NoValue ==
    [nan |-> FALSE, neg |-> FALSE, whole |-> -1, frac |-> -1]

Elem(kind, text) ==
    [kind |-> kind, text |-> text, msg |-> "", value |-> NoValue,
     delta |-> "None", bar |-> -1]

\* st.error(f"... {e}")
ErrorWith(text, e) ==
    [Elem("error", text) EXCEPT !.msg = e]

\* f"{x:.2%}": x times 100 with two decimals and a percent sign, "nan%" for
\* NaN.  A value in thousandths has one decimal as a percentage, so the
\* second decimal is 0 and nothing is rounded.
Percent2(x) ==
    IF x.nan
    THEN [nan |-> TRUE, neg |-> FALSE, whole |-> 0, frac |-> 0]
    ELSE LET a == IF x.v < 0 THEN -x.v ELSE x.v
         IN  [nan |-> FALSE, neg |-> x.v < 0, whole |-> a \div 10,
              frac |-> (a % 10) * 10]

\* int(x * 100) for a number x: the product with the fraction dropped
\* (towards zero).
IntTimes100(x) ==
    IF x.v >= 0 THEN x.v \div 10 ELSE -((-x.v) \div 10)

\* st.metric(label, value, delta)
Metric(x) ==
    [Elem("metric", "Probability of Good Outcome (NIHSS 0-1)") EXCEPT
        !.value = Percent2(x),
        !.delta = IF Gt(x, 800) THEN "High confidence" ELSE "None"]

\* st.progress(n)
Progress(n) ==
    [Elem("progress", "") EXCEPT !.bar = n]

Shown(kind, text) ==
    \E i \in DOMAIN display : display[i].kind = kind /\ display[i].text = text

CountShown(kind, text) ==
    Cardinality({ i \in DOMAIN display :
                    display[i].kind = kind /\ display[i].text = text })

----------------------------------------------------------------------------
(* Loading the model *)

NoLoad ==
    [hit |-> FALSE, path |-> "none", raised |-> FALSE]

\* The two tests of load_model in the other order.
load_model_path_local_first(inSave, inLocal) ==
    IF inLocal THEN "tabpfn_model.pkl"
    ELSE IF inSave THEN "save/tabpfn_model.pkl"
    ELSE "none"

\* The file load_model hands to joblib.load: save/ before the current
\* directory, "none" when neither file exists.
load_model_path(inSave, inLocal) ==
    IF inSave THEN "save/tabpfn_model.pkl"
    ELSE IF inLocal THEN "tabpfn_model.pkl"
    ELSE "none"

\* The per-run variables as they are before the script has set them.
RunReset ==
    /\ load = NoLoad
    /\ model = "unset"
    /\ widgets = FormValues({})
    /\ htn = 0
    /\ stroke = 0
    /\ smoking = 0
    /\ submitted = FALSE
    /\ input_data = NoFrame
    /\ probs = << >>
    /\ prob_good_outcome = Num(0)
    /\ pred_label = -1
    /\ exc = NoExc
    /\ calls = << >>
    /\ display = << >>

Init ==
    /\ pc = "load"
    /\ runs = 1
    /\ saveExists \in BOOLEAN
    /\ localExists \in BOOLEAN
    /\ cache = "miss"
    /\ RunReset

\* try: model = load_model() / except: st.error, model = None.
\* st.cache_resource returns the stored result without running the body
\* when there is one; it stores what the body returns (None included) and
\* stores nothing when the body raises.  Whether the st.error issued inside
\* a stored call is shown again on a later run depends on the Streamlit
\* version, so both outcomes are allowed.  The model object is named by
\* the file it was unpickled from.
LoadModel ==
    /\ pc = "load"
    /\ pc' = "header"
    /\ IF cache # "miss"
       THEN /\ model' = cache
            /\ load' = [hit |-> TRUE, path |-> "none", raised |-> FALSE]
            /\ \/ display' = display
               \/ /\ cache = "None"
                  /\ display' = Append(display, Elem("error",
                        "Error: 'tabpfn_model.pkl' not found in 'save/' folder or root directory."))
            /\ UNCHANGED cache
       ELSE LET path == load_model_path(saveExists, localExists)
            IN  IF path = "none"
                THEN /\ display' = Append(display, Elem("error",
                            "Error: 'tabpfn_model.pkl' not found in 'save/' folder or root directory."))
                     /\ model' = "None"
                     /\ cache' = "None"
                     /\ load' = [hit |-> FALSE, path |-> "none",
                                 raised |-> FALSE]
                ELSE \/ /\ model' = path
                        /\ cache' = path
                        /\ load' = [hit |-> FALSE, path |-> path,
                                    raised |-> FALSE]
                        /\ UNCHANGED display
                     \/ \E e \in ModelErrors :
                          /\ display' = Append(display, ErrorWith(
                                "Failed to load model. Please check dependencies (torch, tabpfn). Error:", e))
                          /\ model' = "None"
                          /\ load' = [hit |-> FALSE, path |-> path,
                                      raised |-> TRUE]
                          /\ UNCHANGED cache
    /\ UNCHANGED << runs, saveExists, localExists, widgets, htn, stroke,
                    smoking, submitted, input_data, probs,
                    prob_good_outcome, pred_label, exc, calls >>

\* Title, introduction and sidebar header.
RenderHeader ==
    /\ pc = "header"
    /\ pc' = "form"
    /\ display' = display \o
          << Elem("markdown", "AIS Clinical Prediction Model"),
             Elem("markdown", "Patient Data Input") >>
    /\ UNCHANGED << runs, saveExists, localExists, cache, load, model,
                    widgets, htn, stroke, smoking, submitted, input_data,
                    probs, prob_good_outcome, pred_label, exc, calls >>

\* with st.form("prediction_form"): the nine number inputs, the three
\* select boxes with map_binary, and the submit button.
RenderForm ==
    /\ pc = "form"
    /\ pc' = "gate"
    /\ \E edited \in SUBSET Fields :
         /\ Cardinality(edited) <= MaxEdits
         /\ widgets' = FormValues(edited)
    /\ htn' = map_binary(widgets'["htn_input"])
    /\ stroke' = map_binary(widgets'["stroke_input"])
    /\ smoking' = map_binary(widgets'["smoking_input"])
    /\ submitted' \in BOOLEAN
    /\ display' = Append(display, Elem("form", "prediction_form"))
    /\ UNCHANGED << runs, saveExists, localExists, cache, load, model,
                    input_data, probs, prob_good_outcome, pred_label, exc,
                    calls >>

\* The gate without the test for a missing model.
PredictionGate_unguarded ==
    /\ pc = "gate"
    /\ pc' = IF submitted THEN "build" ELSE "footer"
    /\ UNCHANGED << runs, saveExists, localExists, cache, load, model,
                    widgets, htn, stroke, smoking, submitted, input_data,
                    probs, prob_good_outcome, pred_label, exc, calls,
                    display >>

\* if submitted: / if model is None: st.error("Model is not loaded.")
PredictionGate ==
    /\ pc = "gate"
    /\ IF ~submitted
       THEN /\ pc' = "footer"
            /\ UNCHANGED display
       ELSE IF model = "None"
       THEN /\ pc' = "footer"
            /\ display' = Append(display,
                                 Elem("error", "Model is not loaded."))
       ELSE /\ pc' = "build"
            /\ UNCHANGED display
    /\ UNCHANGED << runs, saveExists, localExists, cache, load, model,
                    widgets, htn, stroke, smoking, submitted, input_data,
                    probs, prob_good_outcome, pred_label, exc, calls >>

\* input_data = pd.DataFrame({...}); input_data = input_data[feature_order];
\* st.dataframe(input_data) in the expander.
BuildRecord ==
    /\ pc = "build"
    /\ pc' = "predict_proba"
    /\ input_data' = SelectColumns(
                        DataFrame(InputDict(widgets, htn, stroke, smoking)),
                        feature_order)
    /\ display' = Append(display, Elem("dataframe", "View Input Data"))
    /\ UNCHANGED << runs, saveExists, localExists, cache, load, model,
                    widgets, htn, stroke, smoking, submitted, probs,
                    prob_good_outcome, pred_label, exc, calls >>

----------------------------------------------------------------------------
(* The try block *)

ModelCall(method, arg) ==
    [method |-> method, arg |-> arg]

\* predict_proba with the class-0 entry taken: probs[0][0].
CallPredictProba_class0 ==
    /\ pc = "predict_proba"
    /\ calls' = Append(calls, ModelCall("predict_proba", input_data))
    /\ \/ \E row \in ProbRows :
            /\ probs' = << row >>
            /\ prob_good_outcome' = probs'[1][1]
            /\ pc' = "predict"
            /\ UNCHANGED exc
       \/ \E e \in ModelErrors :
            /\ exc' = [src |-> "predict_proba", msg |-> e]
            /\ pc' = "except"
            /\ UNCHANGED << probs, prob_good_outcome >>
    /\ UNCHANGED << runs, saveExists, localExists, cache, load, model,
                    widgets, htn, stroke, smoking, submitted, input_data,
                    pred_label, display >>

\* predict_proba in a try block of its own: after an exception the script
\* goes on to predict.
CallPredictProba_continues ==
    /\ pc = "predict_proba"
    /\ calls' = Append(calls, ModelCall("predict_proba", input_data))
    /\ pc' = "predict"
    /\ \/ \E row \in ProbRows :
            /\ probs' = << row >>
            /\ prob_good_outcome' = probs'[1][2]
            /\ UNCHANGED exc
       \/ \E e \in ModelErrors :
            /\ exc' = [src |-> "predict_proba", msg |-> e]
            /\ UNCHANGED << probs, prob_good_outcome >>
    /\ UNCHANGED << runs, saveExists, localExists, cache, load, model,
                    widgets, htn, stroke, smoking, submitted, input_data,
                    pred_label, display >>

\* probs = model.predict_proba(input_data); prob_good_outcome = probs[0][1]
CallPredictProba ==
    /\ pc = "predict_proba"
    /\ calls' = Append(calls, ModelCall("predict_proba", input_data))
    /\ \/ \E row \in ProbRows :
            /\ probs' = << row >>
            /\ prob_good_outcome' = probs'[1][2]
            /\ pc' = "predict"
            /\ UNCHANGED exc
       \/ \E e \in ModelErrors :
            /\ exc' = [src |-> "predict_proba", msg |-> e]
            /\ pc' = "except"
            /\ UNCHANGED << probs, prob_good_outcome >>
    /\ UNCHANGED << runs, saveExists, localExists, cache, load, model,
                    widgets, htn, stroke, smoking, submitted, input_data,
                    pred_label, display >>

\* The label taken without a call of predict.
CallPredict_skipped ==
    /\ pc = "predict"
    /\ \E label \in Labels : pred_label' = label
    /\ pc' = "banner"
    /\ UNCHANGED << runs, saveExists, localExists, cache, load, model,
                    widgets, htn, stroke, smoking, submitted, input_data,
                    probs, prob_good_outcome, exc, calls, display >>

\* pred_label = model.predict(input_data)[0]
CallPredict ==
    /\ pc = "predict"
    /\ calls' = Append(calls, ModelCall("predict", input_data))
    /\ \/ \E label \in Labels :
            /\ pred_label' = label
            /\ pc' = "banner"
            /\ UNCHANGED exc
       \/ \E e \in ModelErrors :
            /\ exc' = [src |-> "predict", msg |-> e]
            /\ pc' = "except"
            /\ UNCHANGED pred_label
    /\ UNCHANGED << runs, saveExists, localExists, cache, load, model,
                    widgets, htn, stroke, smoking, submitted, input_data,
                    probs, prob_good_outcome, display >>

\* The banner with the test on class 0.
Banner_not_zero(label) ==
    IF label # 0
    THEN Elem("success", "Predicted: Good Outcome")
    ELSE Elem("error", "Predicted: Poor Outcome")

\* The banner for a label: st.success for class 1, st.error otherwise.
Banner(label) ==
    IF label = 1
    THEN Elem("success", "Predicted: Good Outcome")
    ELSE Elem("error", "Predicted: Poor Outcome")

\* st.markdown("### Prediction Results") and the banner in r_col1.
ShowBanner ==
    /\ pc = "banner"
    /\ pc' = "metric"
    /\ display' = display \o
          << Elem("markdown", "Prediction Results"), Banner(pred_label) >>
    /\ UNCHANGED << runs, saveExists, localExists, cache, load, model,
                    widgets, htn, stroke, smoking, submitted, input_data,
                    probs, prob_good_outcome, pred_label, exc, calls >>

\* st.metric(...) in r_col2.
ShowMetric ==
    /\ pc = "metric"
    /\ pc' = "progress"
    /\ display' = Append(display, Metric(prob_good_outcome))
    /\ UNCHANGED << runs, saveExists, localExists, cache, load, model,
                    widgets, htn, stroke, smoking, submitted, input_data,
                    probs, prob_good_outcome, pred_label, exc, calls >>

\* st.progress(int(prob_good_outcome * 100)): int() raises ValueError on
\* NaN, st.progress raises StreamlitAPIException outside 0..100.
ShowProgress ==
    /\ pc = "progress"
    /\ IF prob_good_outcome.nan
       THEN /\ exc' = [src |-> "int", msg |-> "cannot convert float NaN to integer"]
            /\ pc' = "except"
            /\ UNCHANGED display
       ELSE LET n == IntTimes100(prob_good_outcome)
            IN  IF n < 0 \/ n > 100
                THEN /\ exc' = [src |-> "progress",
                                msg |-> "Progress Value has invalid value [0, 100]"]
                     /\ pc' = "except"
                     /\ UNCHANGED display
                ELSE /\ display' = Append(display, Progress(n))
                     /\ pc' = "text"
                     /\ UNCHANGED exc
    /\ UNCHANGED << runs, saveExists, localExists, cache, load, model,
                    widgets, htn, stroke, smoking, submitted, input_data,
                    probs, prob_good_outcome, pred_label, calls >>

\* The explanation under the result: st.success above 0.5, st.warning
\* otherwise.
Prognosis(x) ==
    IF Gt(x, 500)
    THEN Elem("success", "Favorable Prognosis")
    ELSE Elem("warning", "Risk Alert")

ShowText ==
    /\ pc = "text"
    /\ pc' = "cleanup"
    /\ display' = Append(display, Prognosis(prob_good_outcome))
    /\ UNCHANGED << runs, saveExists, localExists, cache, load, model,
                    widgets, htn, stroke, smoking, submitted, input_data,
                    probs, prob_good_outcome, pred_label, exc, calls >>

\* del input_data, probs, prob_good_outcome; gc.collect()
Cleanup ==
    /\ pc = "cleanup"
    /\ pc' = "footer"
    /\ input_data' = NoFrame
    /\ probs' = << >>
    /\ prob_good_outcome' = Num(0)
    /\ UNCHANGED << runs, saveExists, localExists, cache, load, model,
                    widgets, htn, stroke, smoking, submitted, pred_label,
                    exc, calls, display >>

\* except Exception as e: st.error(f"Prediction Error: {e}"); st.write(...)
HandleException ==
    /\ pc = "except"
    /\ pc' = "footer"
    /\ display' = display \o
          << ErrorWith("Prediction Error:", exc.msg),
             Elem("write", "Please check if the input data types match the training data.") >>
    /\ UNCHANGED << runs, saveExists, localExists, cache, load, model,
                    widgets, htn, stroke, smoking, submitted, input_data,
                    probs, prob_good_outcome, pred_label, exc, calls >>

\* st.markdown("---"); st.caption(disclaimer)
Footer ==
    /\ pc = "footer"
    /\ pc' = "done"
    /\ display' = Append(display, Elem("caption", "Disclaimer"))
    /\ UNCHANGED << runs, saveExists, localExists, cache, load, model,
                    widgets, htn, stroke, smoking, submitted, input_data,
                    probs, prob_good_outcome, pred_label, exc, calls >>

\* The next interaction starts the script again from the top: the module
\* variables and the page are rebuilt, the cache entry stays, and the model
\* files may have been added or removed in the meantime.
Rerun ==
    /\ pc = "done"
    /\ runs < MaxRuns
    /\ runs' = runs + 1
    /\ pc' = "load"
    /\ saveExists' \in BOOLEAN
    /\ localExists' \in BOOLEAN
    /\ load' = NoLoad
    /\ model' = "unset"
    /\ widgets' = FormValues({})
    /\ htn' = 0
    /\ stroke' = 0
    /\ smoking' = 0
    /\ submitted' = FALSE
    /\ input_data' = NoFrame
    /\ probs' = << >>
    /\ prob_good_outcome' = Num(0)
    /\ pred_label' = -1
    /\ exc' = NoExc
    /\ calls' = << >>
    /\ display' = << >>
    /\ UNCHANGED cache

Next ==
    \/ LoadModel
    \/ RenderHeader
    \/ RenderForm
    \/ PredictionGate
    \/ BuildRecord
    \/ CallPredictProba
    \/ CallPredict
    \/ ShowBanner
    \/ ShowMetric
    \/ ShowProgress
    \/ ShowText
    \/ Cleanup
    \/ HandleException
    \/ Footer
    \/ Rerun

Spec ==
    Init /\ [][Next]_vars

TypeOK ==
    /\ pc \in { "load", "header", "form", "gate", "build", "predict_proba",
                "predict", "banner", "metric", "progress", "text",
                "cleanup", "except", "footer", "done" }
    /\ runs \in 1 .. MaxRuns
    /\ model \in { "unset", "None", "save/tabpfn_model.pkl",
                   "tabpfn_model.pkl" }
    /\ Len(calls) <= 2

----------------------------------------------------------------------------
(* Properties *)

Loaded ==
    model \notin { "unset", "None" }

GoodBanner ==
    Shown("success", "Predicted: Good Outcome")

PoorBanner ==
    Shown("error", "Predicted: Poor Outcome")

BannerShown ==
    GoodBanner \/ PoorBanner

MetricShown ==
    \E i \in DOMAIN display : display[i].kind = "metric"

ProgressShown ==
    \E i \in DOMAIN display : display[i].kind = "progress"

FavorableText ==
    Shown("success", "Favorable Prognosis")

RiskText ==
    Shown("warning", "Risk Alert")

PredictionErrorShown ==
    Shown("error", "Prediction Error:")

ResultShown ==
    BannerShown \/ MetricShown \/ ProgressShown \/ FavorableText \/ RiskText

RunEnded ==
    pc \in { "footer", "done" }

YesNo(f) ==
    IF widgets[f].str = "Yes" THEN 1 ELSE 0

\* C1: whenever the form was submitted and a model is loaded, a record is
\* passed to the model, and every record passed to the model has one row
\* and the twelve training columns in training order, each column holding
\* the value of its own widget.
C1_RecordColumns ==
    /\ (RunEnded /\ submitted /\ Loaded) => calls # << >>
    /\ \A i \in DOMAIN calls :
         /\ calls[i].arg.columns =
              << "ONT", "SBP", "BMI", "Baseline NIHSS",
                 "Post-thrombolysis NIHSS", "Neutrophil Ratio", "Glucose",
                 "PT", "TT", "Hypertension", "Stroke", "Smoking" >>
         /\ Len(calls[i].arg.rows) = 1
         /\ calls[i].arg.rows[1] =
              << widgets["ont"].num, widgets["sbp"].num, widgets["bmi"].num,
                 widgets["b_nihss"].num, widgets["p_nihss"].num,
                 widgets["neu_ratio"].num, widgets["glucose"].num,
                 widgets["pt"].num, widgets["tt"].num, YesNo("htn_input"),
                 YesNo("stroke_input"), YesNo("smoking_input") >>

C1_Witness ==
    /\ pc = "done"
    /\ Len(calls) = 2
    /\ widgets["stroke_input"].str = "Yes"
    /\ widgets["smoking_input"].str = "No"
    /\ widgets["glucose"].num # NumberDefault["glucose"]

\* C2: a model method is called only in a run where the form was submitted
\* and the model is not None; submitted with model None shows 'Model is not
\* loaded.', builds no record and calls nothing; not submitted calls
\* nothing and shows neither a result nor an error about prediction.
C2_CallsOnlyWhenSubmittedAndLoaded ==
    /\ calls # << >> => (submitted /\ Loaded)
    /\ (RunEnded /\ submitted /\ model = "None") =>
         /\ Shown("error", "Model is not loaded.")
         /\ input_data = NoFrame
         /\ ~Shown("dataframe", "View Input Data")
         /\ calls = << >>
         /\ ~ResultShown
    /\ ~submitted =>
         /\ calls = << >>
         /\ ~ResultShown
         /\ ~PredictionErrorShown
         /\ ~Shown("error", "Model is not loaded.")

C2_Witness ==
    /\ pc = "done"
    /\ submitted
    /\ model = "None"
    /\ Shown("error", "Model is not loaded.")
    /\ calls = << >>

\* The two calls of a prediction: predict_proba, then predict, on one and
\* the same one-row record.
TwoCallsMade ==
    /\ Len(calls) = 2
    /\ calls[1].method = "predict_proba"
    /\ calls[2].method = "predict"
    /\ calls[1].arg = calls[2].arg
    /\ Len(calls[1].arg.rows) = 1

\* C3: in a run where the form was submitted, a model is loaded and neither
\* call raises, exactly two calls are made on the model, predict_proba and
\* then predict, on the same one-row record; a result element is displayed
\* only after both have returned; and between the two calls nothing is
\* displayed and no other call is made.
C3_TwoCallsBeforeResults ==
    /\ [](/\ ( /\ RunEnded /\ submitted /\ Loaded
               /\ exc.src \notin { "predict_proba", "predict" } )
               => TwoCallsMade
          /\ ResultShown => (TwoCallsMade /\ pc \notin { "predict_proba", "predict" })
          /\ Len(calls) <= 2)
    /\ [][ pc = "predict" =>
             /\ display' = display
             /\ calls' = Append(calls, ModelCall("predict", calls[1].arg)) ]_vars

C3_Witness ==
    /\ pc = "done"
    /\ TwoCallsMade
    /\ exc = NoExc
    /\ BannerShown
    /\ MetricShown

\* C4: after a successful prediction the banner and the metric are shown;
\* the banner is 'Predicted: Good Outcome' exactly when the label returned
\* by predict is 1 and 'Predicted: Poor Outcome' for every other label; the
\* metric shows the second entry of the row returned by predict_proba, not
\* the first.
C4_BannerAndMetric ==
    /\ pc = "cleanup" => (BannerShown /\ MetricShown)
    /\ BannerShown =>
         /\ GoodBanner <=> pred_label = 1
         /\ PoorBanner <=> pred_label # 1
    /\ (MetricShown /\ probs # << >>) =>
         \A i \in DOMAIN display :
            display[i].kind = "metric" =>
              /\ display[i].value = Percent2(probs[1][2])
              /\ probs[1][1] # probs[1][2] =>
                    display[i].value # Percent2(probs[1][1])

C4_Witness ==
    /\ pc = "cleanup"
    /\ pred_label = 2
    /\ PoorBanner
    /\ MetricShown
    /\ probs[1][2] = Num(801)
    /\ probs[1][1] = Num(199)

\* C5: when predict_proba or predict raises, the run shows 'Prediction
\* Error: <message>' and the hint, shows no banner, metric, progress bar or
\* prognosis text, goes on to the footer and shows the disclaimer; when
\* predict_proba raises, predict is not called.
C5_ModelExceptionCaught ==
    exc.src \in { "predict_proba", "predict" } =>
        /\ pc \in { "except", "footer", "done" }
        /\ ~ResultShown
        /\ RunEnded =>
             /\ \E i \in DOMAIN display :
                   /\ display[i].kind = "error"
                   /\ display[i].text = "Prediction Error:"
                   /\ display[i].msg = exc.msg
             /\ Shown("write", "Please check if the input data types match the training data.")
        /\ pc = "done" => Shown("caption", "Disclaimer")
        /\ exc.src = "predict_proba" =>
             /\ Len(calls) = 1
             /\ calls[1].method = "predict_proba"

C5_Witness ==
    /\ pc = "done"
    /\ exc.src = "predict_proba"
    /\ PredictionErrorShown
    /\ Shown("caption", "Disclaimer")

FormDone ==
    pc \notin { "load", "header", "form" }

\* The texts of the error boxes the script can show.
KnownErrors ==
    { "Error: 'tabpfn_model.pkl' not found in 'save/' folder or root directory.",
      "Failed to load model. Please check dependencies (torch, tabpfn). Error:",
      "Model is not loaded.", "Predicted: Poor Outcome", "Prediction Error:" }

\* C6, as stated: every form field reaches the script as a string to be
\* parsed (with a default taken when parsing fails), no error is shown for
\* it, and a record is still built and sent to the model.
C6_FieldsParsedFromStrings ==
    FormDone =>
        /\ \A f \in Fields : widgets[f].type = "str"
        /\ \A i \in DOMAIN display :
              display[i].kind = "error" => display[i].text \in KnownErrors
        /\ (RunEnded /\ submitted /\ Loaded) => calls # << >>

\* C6, amended: only the three Yes/No fields reach the script as strings,
\* and map_binary turns "Yes" into 1 and anything else into 0; the nine
\* numeric fields reach it as numbers inside the widget's range and enter
\* the record unchanged, so nothing is parsed and no default is substituted;
\* the form shows no error of its own, and when the form was submitted and
\* a model is loaded a record with these values is sent to the model.
C6_NumbersFromWidgetsBinaryMapped ==
    FormDone =>
        /\ \A f \in NumericFields :
              /\ widgets[f].type = "float"
              /\ widgets[f].num >= 0
        /\ \A f \in BinaryFields :
              /\ widgets[f].type = "str"
              /\ widgets[f].str \in { "No", "Yes" }
        /\ htn = 1 <=> widgets["htn_input"].str = "Yes"
        /\ stroke = 1 <=> widgets["stroke_input"].str = "Yes"
        /\ smoking = 1 <=> widgets["smoking_input"].str = "Yes"
        /\ { htn, stroke, smoking } \subseteq { 0, 1 }
        /\ \A i \in DOMAIN display :
              display[i].kind = "error" => display[i].text \in KnownErrors
        /\ (RunEnded /\ submitted /\ Loaded) =>
              /\ calls # << >>
              /\ calls[1].arg.rows[1][1] = widgets["ont"].num
              /\ calls[1].arg.rows[1][7] = widgets["glucose"].num
              /\ calls[1].arg.rows[1][10] = htn
              /\ calls[1].arg.rows[1][11] = stroke
              /\ calls[1].arg.rows[1][12] = smoking

C6_Witness ==
    /\ pc = "done"
    /\ calls # << >>
    /\ widgets["htn_input"].str = "Yes"
    /\ widgets["smoking_input"].str = "No"
    /\ htn = 1
    /\ smoking = 0
    /\ widgets["ont"].type = "float"

\* C7: when load_model's body runs (no stored result), the file handed to
\* joblib.load is save/tabpfn_model.pkl whenever it exists, also when
\* tabpfn_model.pkl exists too; tabpfn_model.pkl only when the save/ file
\* does not exist; with neither file nothing is loaded, the not-found error
\* is shown and the model is None; when loading raises, 'Failed to load
\* model' is shown, the model is None and the form is still rendered.
C7_LoadPriority ==
    (pc # "load" /\ ~load.hit) =>
        /\ saveExists => load.path = "save/tabpfn_model.pkl"
        /\ load.path = "tabpfn_model.pkl" => (~saveExists /\ localExists)
        /\ (~saveExists /\ localExists) => load.path = "tabpfn_model.pkl"
        /\ (~saveExists /\ ~localExists) =>
              /\ load.path = "none"
              /\ ~load.raised
              /\ Shown("error", "Error: 'tabpfn_model.pkl' not found in 'save/' folder or root directory.")
              /\ model = "None"
        /\ (load.path # "none" /\ ~load.raised) => model = load.path
        /\ load.raised =>
              /\ Shown("error", "Failed to load model. Please check dependencies (torch, tabpfn). Error:")
              /\ model = "None"
              /\ RunEnded => Shown("form", "prediction_form")

C7_Witness ==
    /\ pc = "done"
    /\ ~load.hit
    /\ saveExists
    /\ localExists
    /\ model = "save/tabpfn_model.pkl"

\* The class-1 probability is a number from 0 to 1.
ProbInUnitRange ==
    /\ ~prob_good_outcome.nan
    /\ prob_good_outcome.v >= 0
    /\ prob_good_outcome.v <= 1000

\* C8: the metric carries the 'High confidence' delta exactly when the
\* class-1 probability p is above 0.8; a completed result shows 'Favorable
\* Prognosis' exactly when p is above 0.5 and 'Risk Alert' otherwise,
\* exactly one of the two; the progress bar is p*100 with the fraction
\* dropped (towards zero); and for p from 0 to 1 that value is in 0..100
\* and the progress bar is shown.
C8_StrictThresholds ==
    /\ pc \in { "progress", "text", "cleanup", "except" } =>
         \A i \in DOMAIN display :
            display[i].kind = "metric" =>
               ( display[i].delta = "High confidence"
                   <=> (~prob_good_outcome.nan /\ prob_good_outcome.v > 800) )
    /\ pc = "cleanup" =>
         /\ FavorableText <=> prob_good_outcome.v > 500
         /\ RiskText <=> prob_good_outcome.v <= 500
         /\ CountShown("success", "Favorable Prognosis")
              + CountShown("warning", "Risk Alert") = 1
    /\ \A i \in DOMAIN display :
          display[i].kind = "progress" =>
             /\ display[i].bar \in 0 .. 100
             /\ (pc \in { "text", "cleanup" } /\ prob_good_outcome.v >= 0) =>
                  /\ display[i].bar * 10 <= prob_good_outcome.v
                  /\ prob_good_outcome.v < display[i].bar * 10 + 10
             /\ (pc \in { "text", "cleanup" } /\ prob_good_outcome.v < 0) =>
                  /\ display[i].bar = 0
                  /\ prob_good_outcome.v > -10
    /\ exc.src \in { "int", "progress" } => ~ProbInUnitRange

C8_Witness ==
    /\ pc = "cleanup"
    /\ prob_good_outcome = Num(500)
    /\ RiskText
    /\ ~FavorableText
    /\ \E i \in DOMAIN display :
          display[i].kind = "progress" /\ display[i].bar = 50

\* C9, as stated: for every label and every class-1 probability the Good
\* Outcome banner is shown exactly when the Favorable Prognosis text is,
\* and the Poor Outcome banner exactly when the Risk Alert text is.
C9_VerdictsAlwaysAgree ==
    pc = "cleanup" =>
        /\ GoodBanner <=> FavorableText
        /\ PoorBanner <=> RiskText

\* C9, amended: the banner follows the label alone and the text the
\* probability alone, so in a completed result the two verdicts agree
\* exactly when the label is 1 if and only if the class-1 probability is
\* above 0.5.
C9_VerdictsAgreeIffModelConsistent ==
    pc = "cleanup" =>
        /\ GoodBanner <=> pred_label = 1
        /\ FavorableText <=> prob_good_outcome.v > 500
        /\ ( (GoodBanner <=> FavorableText) /\ (PoorBanner <=> RiskText) )
             <=> ( pred_label = 1 <=> prob_good_outcome.v > 500 )

C9_Witness ==
    /\ pc = "cleanup"
    /\ pred_label = 1
    /\ prob_good_outcome = Num(500)
    /\ GoodBanner
    /\ RiskText

\* C10: no run shows both a prediction result and 'Prediction Error'; a run
\* that shows an outcome banner also shows the metric, the progress bar and
\* exactly one prognosis text.
C10_ResultOrErrorNeverBoth ==
    /\ PredictionErrorShown => (~BannerShown /\ ~MetricShown)
    /\ (RunEnded /\ BannerShown) =>
         /\ MetricShown
         /\ ProgressShown
         /\ CountShown("success", "Favorable Prognosis")
              + CountShown("warning", "Risk Alert") = 1

====
